---- MODULE Spec2Model ----
(***************************************************************************)
(* Model of in-rich/lib-go: the deploy package (gRPC channel / server      *)
(* bootstrap, credentials, health updater, call wrapper) and the health    *)
(* handler.                                                                *)
(***************************************************************************)
EXTENDS Integers, Sequences, FiniteSets, TLC

(***************************************************************************)
(* Bounds of the model.                                                    *)
(***************************************************************************)
\* How many times the caller invokes the health updater function.
MaxCycles == 2

\* How many close operations the caller makes, and how many calls the server
\* handles at a time.
MaxCloses == 4
MaxInflight == 2

(***************************************************************************)
(* Health statuses: the values of grpc_health_v1.HealthCheckResponse.     *)
(***************************************************************************)
SERVING == "SERVING"
NOT_SERVING == "NOT_SERVING"
UNKNOWN == "UNKNOWN"
\* A name that has no entry in the health server's status map.
NOT_REGISTERED == "NOT_REGISTERED"

\* The empty service name: the health server's overall (root) entry.
RootService == ""

\* The names a dependency probe (depsCheck) may return as keys.
ProbeKeys == {"", "db", "cache", "svcA"}

\* Every name a health query may carry.
Names == ProbeKeys \cup {"svcB"}

\* The map[string]bool values depsCheck() may return.
DepsResults == UNION {[D -> BOOLEAN] : D \in SUBSET ProbeKeys}

\* The nil / empty map.
EmptyMap == [k \in {} |-> TRUE]

VARIABLES
    registry,   \* healthcheck's status map: name -> status or NOT_REGISTERED
    upc,        \* position of the healthUpdater function
    status,     \* healthUpdater's local `status` (this cycle's probe result)
    todo,       \* keys of `status` the range loop has not visited yet
    cycles,     \* number of invocations of healthUpdater so far
    cycleStart, \* history: the registry when this cycle's probe returned
    rpc,        \* position of a health-check caller querying several names
    rleft,      \* names that caller has still to query
    robs,       \* what that caller has observed so far: name -> status
    rcands      \* history: registries left by the cycles its queries overlap

VARIABLES
    hservices,  \* HealthHandler.services: the names that have a ServiceCheck
    hchecks,    \* what each registered ServiceCheck returns when called now
    hreq,       \* the service name of the handler's last request
    hresp,      \* the status of the handler's last response
    hseen       \* history: hchecks as it was when that request was served

VARIABLES
    osEnv,      \* os.Getenv("ENV") when the process starts
    ENV,        \* the package variable ENV
    alive       \* "init" before the package init(), then "running" or "exited"

VARIABLES
    now,        \* the clock, in seconds
    oconn,      \* OpenGRPCConn's channel (NoConn before it returns)
    ots,        \* OpenGRPCConn's token source (Nil in local environments)
    cpc,        \* position of CallGRPCEndpoint
    cts,        \* its tokenSource argument
    cparentMd,  \* outgoing metadata already on its ctx argument
    centry,     \* when it was entered
    cdeadline,  \* the deadline of localCTX
    cmd,        \* outgoing metadata of the context handed to callback
    ctokenCalls,\* calls of tokenSource.Token() in this invocation
    ccbCalls,   \* calls of callback in this invocation
    ccbRet,     \* history: what callback returned
    cres,       \* what CallGRPCEndpoint returned: <<response, error>>
    cretAt,     \* when it returned
    ccancelled  \* whether localCTX's cancel has run

VARIABLES
    osVars,     \* the process environment: variable name -> value
    credpc,     \* "idle", "returned" with a credential, or "exited" by log.Fatal
    credop,     \* which constructor ran: "client" or "server"
    credname,   \* its service name argument
    credres,    \* the transport credential it returned
    fatalLog    \* what log.Fatal printed before the process exited

VARIABLES
    connState,        \* the channels of the process: each "open" or "closed"
    serverState,      \* the server: "serving", "stopping" (GracefulStop waits) or "stopped"
    listenerState,    \* the listener: "open" or "closed"
    inflight,         \* the calls the server is handling
    closepc,          \* CloseGRPCServer: "idle" or "GracefulStop" (blocked in it)
    connCloseErr,     \* what the last conn.Close() returned
    listenerCloseErr, \* what the last listener.Close() returned
    closeCalls        \* how many close operations were called

healthVars == <<registry, upc, status, todo, cycles, cycleStart>>
readerVars == <<rpc, rleft, robs, rcands>>
handlerVars == <<hservices, hchecks, hreq, hresp, hseen>>
procVars == <<osEnv, ENV, alive>>
connVars == <<oconn, ots>>
callVars == <<now, cpc, cts, cparentMd, centry, cdeadline, cmd, ctokenCalls, ccbCalls,
              ccbRet, cres, cretAt, ccancelled>>

credVars == <<osVars, credpc, credop, credname, credres, fatalLog>>

closeVars == <<connState, serverState, listenerState, inflight, closepc, connCloseErr,
               listenerCloseErr, closeCalls>>

vars == <<healthVars, readerVars, handlerVars, procVars, connVars, callVars, credVars,
          closeVars>>

(***************************************************************************)
(* StartGRPCServer: the health server and the healthUpdater closure.       *)
(***************************************************************************)

\* health.NewServer(): only the root entry exists, and it is SERVING.
NewHealthServer == [n \in Names |-> IF n = RootService THEN SERVING ELSE NOT_REGISTERED]

\* A plausible slip: the branches of `if ok` swapped.
StatusOfSwapped(ok) == IF ok THEN NOT_SERVING ELSE SERVING

\* The status healthUpdater pushes for a probe entry: `if ok {SERVING} else {NOT_SERVING}`.
StatusOf(ok) == IF ok THEN SERVING ELSE NOT_SERVING

\* A plausible slip: the status map rebuilt from scratch around the new entry.
SetServingStatusFresh(reg, service, st) ==
    [n \in Names |-> IF n = service THEN st ELSE NewHealthServer[n]]

\* A plausible slip: a failed entry also marks the root entry as not serving.
SetServingStatusAndRoot(reg, service, st) ==
    [n \in Names |-> IF n = service THEN st
                     ELSE IF n = RootService /\ st = NOT_SERVING THEN NOT_SERVING
                     ELSE reg[n]]

\* healthcheck.SetServingStatus(service, st): one entry overwritten under the lock.
SetServingStatus(reg, service, st) == [reg EXCEPT ![service] = st]


\* The projection of a registry on the names a multi-name caller queries.
ReaderNames == {"db", "cache"}
Proj(reg) == [n \in ReaderNames |-> reg[n]]

InitHealth ==
    /\ registry = NewHealthServer
    /\ upc = "idle"
    /\ status = EmptyMap
    /\ todo = {}
    /\ cycles = 0
    /\ cycleStart = NewHealthServer

InitReader ==
    /\ rpc = "idle"
    /\ rleft = {}
    /\ robs = EmptyMap
    /\ rcands = {}

\* The caller runs the function StartGRPCServer returned (`go health()`).
Invoke ==
    /\ upc \in {"idle", "returned"}
    /\ cycles < MaxCycles
    /\ upc' = "probe"
    /\ cycles' = cycles + 1
    /\ UNCHANGED <<registry, status, todo, cycleStart>>

\* status := depsCheck()
\* With an empty result the range loop has nothing to visit and the sleep begins.
DepsCheck ==
    /\ upc = "probe"
    /\ \E s \in DepsResults :
        /\ status' = s
        /\ todo' = DOMAIN s
        /\ upc' = IF DOMAIN s = {} THEN "sleep" ELSE "push"
    /\ cycleStart' = registry
    /\ UNCHANGED <<registry, cycles>>

\* One iteration of `for service, ok := range status` (Go visits the keys in any
\* order); after the last one, time.Sleep(5 * time.Second) begins.
PushOne ==
    /\ upc = "push"
    /\ \E service \in todo :
        /\ registry' = SetServingStatus(registry, service, StatusOf(status[service]))
        /\ todo' = todo \ {service}
        /\ upc' = IF todo' = {} THEN "sleep" ELSE "push"
    /\ UNCHANGED <<status, cycles, cycleStart>>

\* The sleep is over and healthUpdater returns: the function has no loop.
Return ==
    /\ upc = "sleep"
    /\ upc' = "returned"
    /\ UNCHANGED <<registry, status, todo, cycles, cycleStart>>

UpdaterStep == DepsCheck \/ PushOne \/ Return

\* A cycle has completed: its probe, its pushes, and (at least the start of) its sleep.
CycleDone == upc \in {"sleep", "returned"}

\* History: the registry as the last completed cycle (or the construction) left it.
\* Only the range loop writes, so outside of it that is the registry itself.
LastCompleted == IF upc = "push" THEN cycleStart ELSE registry

(***************************************************************************)
(* A health-check caller that queries the names of ReaderNames one by one, *)
(* each query reading one entry of the status map under the lock.          *)
(***************************************************************************)

\* History: the registry as the cycle being written will leave it (outside of the
\* range loop, the registry as it is).
CycleFinal ==
    [n \in Names |->
        IF upc = "push" /\ n \in DOMAIN status
        THEN (IF status[n] THEN "SERVING" ELSE "NOT_SERVING")
        ELSE LastCompleted[n]]

\* History: the cycles the caller's queries overlap, each as the registry it
\* leaves: the last one completed before the first query, and the one being written.
ReaderStart ==
    /\ rpc \in {"idle", "done"}
    /\ rpc' = "reading"
    /\ rleft' = ReaderNames
    /\ robs' = EmptyMap
    /\ rcands' = {Proj(LastCompleted), Proj(CycleFinal)}

ReaderRead ==
    /\ rpc = "reading"
    /\ \E n \in rleft :
        /\ robs' = [m \in DOMAIN robs \cup {n} |-> IF m = n THEN registry[n] ELSE robs[m]]
        /\ rleft' = rleft \ {n}
        /\ rpc' = IF rleft' = {} THEN "done" ELSE "reading"
    /\ UNCHANGED rcands

\* History: a cycle that begins while the caller is between queries.
NoteCycle ==
    rcands' = IF rpc = "reading" THEN rcands \cup {Proj(CycleFinal')} ELSE rcands

(***************************************************************************)
(* HealthHandler (package handlers): a health endpoint over a map of       *)
(* ServiceCheck functions.                                                 *)
(***************************************************************************)
Nil == "nil"

\* The names that may have a ServiceCheck.
HandlerNames == {"", "svcA", "svcB"}

\* A plausible slip: the empty name answered with the aggregate of the checks.
CheckAggregated(service, services, checks) ==
    IF service # ""
    THEN IF service \notin services THEN UNKNOWN
         ELSE IF ~checks[service] THEN NOT_SERVING
         ELSE SERVING
    ELSE IF \E s \in services : ~checks[s] THEN NOT_SERVING ELSE SERVING

\* HealthHandler.Check(ctx, in) with in.Service = service; checks[s] is what
\* h.services[s]() returns.
Check(service, services, checks) ==
    IF service # ""
    THEN IF service \notin services THEN UNKNOWN
         ELSE IF ~checks[service] THEN NOT_SERVING
         ELSE SERVING
    ELSE SERVING

InitHandlerIdle ==
    /\ hservices = {}
    /\ hchecks = EmptyMap
    /\ hreq = Nil
    /\ hresp = Nil
    /\ hseen = EmptyMap

\* The handler is built with any map of checks.
InitHandler ==
    /\ hservices \in SUBSET HandlerNames
    /\ hchecks \in [hservices -> BOOLEAN]
    /\ hreq = Nil
    /\ hresp = Nil
    /\ hseen = EmptyMap

\* The state the ServiceCheck functions look at changes.
ChecksChange ==
    /\ \E c \in [hservices -> BOOLEAN] : c # hchecks /\ hchecks' = c
    /\ UNCHANGED <<hservices, hreq, hresp, hseen>>

\* One Check request: a request without a service name carries "".
HandlerCheck ==
    /\ \E service \in Names :
        /\ hreq' = service
        /\ hresp' = Check(service, hservices, hchecks)
    /\ hseen' = hchecks
    /\ UNCHANGED <<hservices, hchecks>>

(***************************************************************************)
(* env.go: the process-wide deployment mode.                               *)
(***************************************************************************)
DevENV == "dev"
ProdENV == "prod"
StagingEnv == "staging"

\* The values the ENV environment variable may have when the process starts.
OsEnvValues == {"", "dev", "prod", "staging", "qa"}

\* lo.Coalesce(a, b): the first value that is not the zero value.
Coalesce(a, b) == IF a # "" THEN a ELSE b

\* A plausible slip: staging forgotten.
IsReleaseEnvProdOnly(env) == env = ProdENV

\* IsReleaseEnv(), with the package variable as a parameter.
IsReleaseEnv(env) == env = ProdENV \/ env = StagingEnv

InitProcIdle ==
    /\ osEnv = ""
    /\ ENV = Coalesce(osEnv, DevENV)
    /\ alive = "running"

\* The process starts: `var ENV, _ = lo.Coalesce(os.Getenv("ENV"), DevENV)`.
InitProc ==
    /\ osEnv \in OsEnvValues
    /\ ENV = Coalesce(osEnv, DevENV)
    /\ alive = "init"

\* func init(): log.Fatalf on an unrecognized ENV.
PackageInit ==
    /\ alive = "init"
    /\ alive' = IF ENV # DevENV /\ ENV # ProdENV /\ ENV # StagingEnv
                THEN "exited" ELSE "running"
    /\ UNCHANGED <<osEnv, ENV>>

(***************************************************************************)
(* OpenGRPCConn (platform-identity variant) and CallGRPCEndpoint.          *)
(***************************************************************************)
\* 15 * time.Second, in seconds.
Timeout == 15

\* The clock stops here; a call is entered early enough to see its deadline pass.
MaxTime == 17

Hosts == {"orders.internal:443"}
Tokens == {"tokA", "tokB"}

\* A context without a deadline.
NoDeadline == -1

\* The caller's own timeouts, in seconds from the entry (NoDeadline: none).
ParentTimeouts == {NoDeadline, 5, 30}

\* Outgoing metadata the caller's context may already carry.
ParentMds == {<< >>, << <<"x-request-id", "r1">> >>}

DeadlineExceeded == "context deadline exceeded"
TokenError == "token fetch failed"
RpcError == "rpc failed"

\* What callback may return while its context is live: <<response, error>>.
CallbackReturns == {<<"res", Nil>>, <<Nil, RpcError>>, <<"partial", RpcError>>}

Min(a, b) == IF a <= b THEN a ELSE b

\* context.WithTimeout(ctx, d) at time t: the earlier of ctx's deadline and t + d.
WithTimeout(parentDeadline, t, d) ==
    IF parentDeadline = NoDeadline THEN t + d ELSE Min(parentDeadline, t + d)

\* A plausible slip: the pair appended twice.
AppendToOutgoingContextTwice(md, key, value) ==
    md \o << <<key, value>>, <<key, value>> >>

\* grpcMetadata.AppendToOutgoingContext(ctx, key, value): one more pair.
AppendToOutgoingContext(md, key, value) == Append(md, <<key, value>>)

\* A plausible slip: the response returned along with the error.
CallResultKeepResponse(ret) == ret

\* The tail of CallGRPCEndpoint: `if err != nil { return nil, err }; return res, nil`.
CallResult(ret) == IF ret[2] # Nil THEN <<Nil, ret[2]>> ELSE <<ret[1], Nil>>

\* A plausible slip: the token source built whatever the environment.
OpenTokenSourceAlways(env, host) == "idtoken for " \o host

\* The token source OpenGRPCConn returns: nil unless IsReleaseEnv().
OpenTokenSource(env, host) ==
    IF ~IsReleaseEnv(env) THEN Nil ELSE "idtoken for " \o host

\* The transport credentials OpenGRPCConn dials with.
OpenConnCredentials(env) ==
    IF IsReleaseEnv(env) THEN [kind |-> "tls", RootCAs |-> "system roots"]
    ELSE [kind |-> "insecure"]

\* No channel yet.
NoConn == [host |-> Nil, creds |-> [kind |-> Nil], authority |-> Nil]

InitConn ==
    /\ oconn = NoConn
    /\ ots = Nil

InitCall ==
    /\ now = 0
    /\ cpc = "idle"
    /\ cts = Nil
    /\ cparentMd = << >>
    /\ centry = 0
    /\ cdeadline = 0
    /\ cmd = << >>
    /\ ctokenCalls = 0
    /\ ccbCalls = 0
    /\ ccbRet = <<Nil, Nil>>
    /\ cres = <<Nil, Nil>>
    /\ cretAt = 0
    /\ ccancelled = FALSE

\* OpenGRPCConn(host): log.Fatal when the system roots, the client or the token
\* source cannot be built (the last two only exist in release environments).
OpenGRPCConn ==
    /\ alive = "running"
    /\ oconn = NoConn
    /\ \E host \in Hosts, failure \in {"none", "roots", "client", "tokenSource"} :
        IF \/ failure = "client"
           \/ (failure \in {"roots", "tokenSource"} /\ IsReleaseEnv(ENV))
        THEN /\ alive' = "exited"
             /\ UNCHANGED <<oconn, ots>>
        ELSE /\ oconn' = [host |-> host, creds |-> OpenConnCredentials(ENV),
                          authority |-> IF IsReleaseEnv(ENV) THEN host ELSE Nil]
             /\ ots' = OpenTokenSource(ENV, host)
             /\ UNCHANGED alive
    /\ UNCHANGED <<osEnv, ENV>>

\* callback(localCTX, in) is called with the metadata md.
InvokeCallback(md) ==
    /\ cmd' = md
    /\ ccbCalls' = ccbCalls + 1
    /\ cpc' = "rpc"

\* CallGRPCEndpoint is entered: localCTX is made, and then either the token is
\* asked for or, without a token source, callback is called at once.
CallEnter ==
    /\ alive = "running"
    /\ oconn # NoConn
    /\ cpc = "idle"
    /\ now + Timeout < MaxTime
    /\ \E ts \in {Nil, ots}, pt \in ParentTimeouts, pmd \in ParentMds :
        /\ cts' = ts
        /\ cparentMd' = pmd
        /\ centry' = now
        /\ cdeadline' = WithTimeout(IF pt = NoDeadline THEN NoDeadline ELSE now + pt,
                                    now, Timeout)
        /\ IF ts # Nil
           THEN /\ ctokenCalls' = ctokenCalls + 1
                /\ cpc' = "token"
                /\ UNCHANGED <<cmd, ccbCalls>>
           ELSE /\ InvokeCallback(pmd)
                /\ UNCHANGED ctokenCalls
    /\ UNCHANGED <<now, ccbRet, cres, cretAt, ccancelled>>

\* tokenSource.Token() returns a token: it goes on the metadata, callback is called.
\* Token() takes no context: nothing makes it return by the deadline.
TokenOk ==
    /\ cpc = "token"
    /\ \E tok \in Tokens :
        InvokeCallback(AppendToOutgoingContext(cparentMd, "authorization", "Bearer " \o tok))
    /\ UNCHANGED <<now, cts, cparentMd, centry, cdeadline, ctokenCalls, ccbRet, cres,
                   cretAt, ccancelled>>

\* tokenSource.Token() fails: `return nil, err`, and the deferred cancel runs.
TokenFail ==
    /\ cpc = "token"
    /\ cres' = <<Nil, TokenError>>
    /\ cpc' = "returned"
    /\ cretAt' = now
    /\ ccancelled' = TRUE
    /\ UNCHANGED <<now, cts, cparentMd, centry, cdeadline, cmd, ctokenCalls, ccbCalls, ccbRet>>

\* callback returns: what the peer answered while localCTX is live, the deadline
\* error once it has expired (a generated gRPC stub honours its context).
CallbackReturn ==
    /\ cpc = "rpc"
    /\ \E ret \in IF now >= cdeadline THEN {<<Nil, DeadlineExceeded>>} ELSE CallbackReturns :
        /\ ccbRet' = ret
        /\ cres' = CallResult(ret)
    /\ cpc' = "returned"
    /\ cretAt' = now
    /\ ccancelled' = TRUE
    /\ UNCHANGED <<now, cts, cparentMd, centry, cdeadline, cmd, ctokenCalls, ccbCalls>>

\* A second passes.  An expired context ends the RPC before the clock moves on.
Tick ==
    /\ now < MaxTime
    /\ ~(cpc = "rpc" /\ now >= cdeadline)
    /\ now' = now + 1
    /\ UNCHANGED <<cpc, cts, cparentMd, centry, cdeadline, cmd, ctokenCalls, ccbCalls,
                   ccbRet, cres, cretAt, ccancelled>>

(***************************************************************************)
(* grpc.go (peer-pinned variant): credentials from the environment.        *)
(***************************************************************************)
\* The service names the constructors are called with.
ServiceNames == {"orders", "Orders", "billing"}

\* strings.ToUpper on those names.
ToUpper(str) ==
    CASE str = "orders" -> "ORDERS"
      [] str = "Orders" -> "ORDERS"
      [] str = "billing" -> "BILLING"

\* The variables the environment may define, and the values they may have: unset
\* or empty, not PEM, or PEM (certificate A goes with key A, B with B).
EnvVarNames == {"ORDERS_CERT", "ORDERS_KEY", "ORDERS_CA"}
CertValues == {"", "garbage", "certA", "certB"}
KeyValues == {"", "garbage", "keyA", "keyB"}
CAValues == {"", "garbage", "caPEM"}

Environments ==
    {e \in [EnvVarNames -> CertValues \cup KeyValues \cup CAValues] :
        /\ e["ORDERS_CERT"] \in CertValues
        /\ e["ORDERS_KEY"] \in KeyValues
        /\ e["ORDERS_CA"] \in CAValues}

\* os.Getenv(name): "" for a variable that is not set.
Getenv(env, name) == IF name \in DOMAIN env THEN env[name] ELSE ""

\* Whether tls.X509KeyPair(cert, key) succeeds.
X509KeyPairOk(rawCert, rawKey) ==
    \/ rawCert = "certA" /\ rawKey = "keyA"
    \/ rawCert = "certB" /\ rawKey = "keyB"

\* Whether ca.AppendCertsFromPEM(rawCA) finds a certificate.
AppendCertsFromPEMOk(rawCA) == rawCA = "caPEM"

\* tls.Certificate{} and a nil *x509.CertPool.
NoCertificate == [cert |-> "", key |-> ""]
NoPool == [certs |-> ""]

\* loadCertificates(prefix): <<certificate, error>>.
loadCertificates(env, prefix) ==
    LET rawCert == Getenv(env, ToUpper(prefix) \o "_CERT")
        rawKey == Getenv(env, ToUpper(prefix) \o "_KEY")
    IN  IF rawCert = ""
        THEN <<NoCertificate, "missing certificate for service: " \o prefix \o "\n">>
        ELSE IF rawKey = ""
        THEN <<NoCertificate, "missing key for service: " \o prefix \o "\n">>
        ELSE IF ~X509KeyPairOk(rawCert, rawKey)
        THEN <<NoCertificate,
               "failed to load certificate for service " \o prefix \o ": tls: failed to parse key pair">>
        ELSE <<[cert |-> rawCert, key |-> rawKey], Nil>>

\* A loadCA that accepts whatever the variable holds, an empty value included.
loadCAFailOpen(env, prefix) ==
    <<[certs |-> Getenv(env, ToUpper(prefix) \o "_CA")], Nil>>

\* loadCA(prefix): <<pool, error>>.
loadCA(env, prefix) ==
    LET rawCA == Getenv(env, ToUpper(prefix) \o "_CA")
    IN  IF rawCA = ""
        THEN <<NoPool, "missing CA for service: " \o prefix \o "\n">>
        ELSE IF ~AppendCertsFromPEMOk(rawCA)
        THEN <<NoPool, "failed to load CA for service " \o prefix \o "\n">>
        ELSE <<[certs |-> rawCA], Nil>>

\* insecure.NewCredentials()
InsecureCredentials == [kind |-> "insecure"]

NoFatal == <<Nil, Nil>>
NoCredential == [kind |-> Nil]

\* loadClientCredentials(host, name): the credential, or what log.Fatal is given.
loadClientCredentials(mode, env, host, name) ==
    IF ~IsReleaseEnv(mode)
    THEN [fatal |-> NoFatal, cred |-> InsecureCredentials]
    ELSE LET cert == loadCertificates(env, name)
             ca == loadCA(env, name)
         IN  IF cert[2] # Nil
             THEN [fatal |-> <<cert[2], "failed to load certificate for service " \o name>>,
                   cred |-> NoCredential]
             ELSE IF ca[2] # Nil
             THEN [fatal |-> <<ca[2], "failed to load CA for service " \o name>>,
                   cred |-> NoCredential]
             ELSE [fatal |-> NoFatal,
                   cred |-> [kind |-> "tls", ServerName |-> host,
                             Certificates |-> <<cert[1]>>, RootCAs |-> ca[1]]]

\* loadServerCredentials(name): the credential, or what log.Fatal is given.
loadServerCredentials(mode, env, name) ==
    IF ~IsReleaseEnv(mode)
    THEN [fatal |-> NoFatal, cred |-> InsecureCredentials]
    ELSE LET cert == loadCertificates(env, name)
             ca == loadCA(env, name)
         IN  IF cert[2] # Nil
             THEN [fatal |-> <<cert[2], "failed to load certificate for service " \o name>>,
                   cred |-> NoCredential]
             ELSE IF ca[2] # Nil
             THEN [fatal |-> <<ca[2], "failed to load CA for service " \o name>>,
                   cred |-> NoCredential]
             ELSE [fatal |-> NoFatal,
                   cred |-> [kind |-> "tls", Certificates |-> <<cert[1]>>,
                             ClientCAs |-> ca[1],
                             ClientAuth |-> "RequireAndVerifyClientCert"]]

InitCredIdle ==
    /\ osVars = EmptyMap
    /\ credpc = "idle"
    /\ credop = Nil
    /\ credname = Nil
    /\ credres = NoCredential
    /\ fatalLog = NoFatal

\* The process starts with any environment.
InitCred ==
    /\ osVars \in Environments
    /\ credpc = "idle"
    /\ credop = Nil
    /\ credname = Nil
    /\ credres = NoCredential
    /\ fatalLog = NoFatal

\* The outcome of a constructor: the credential is returned, or log.Fatal prints
\* and the process exits.
CredentialOutcome(op, name, out) ==
    /\ credop' = op
    /\ credname' = name
    /\ IF out.fatal # NoFatal
       THEN /\ alive' = "exited"
            /\ fatalLog' = out.fatal
            /\ credpc' = "exited"
            /\ credres' = NoCredential
       ELSE /\ credpc' = "returned"
            /\ credres' = out.cred
            /\ UNCHANGED <<alive, fatalLog>>
    /\ UNCHANGED <<osEnv, ENV, osVars>>

\* OpenGRPCConn(host, name) builds its channel on loadClientCredentials(host, name).
ClientCredentials ==
    /\ alive = "running"
    /\ \E host \in Hosts, name \in ServiceNames :
        CredentialOutcome("client", name, loadClientCredentials(ENV, osVars, host, name))

\* StartGRPCServer(port, name) builds its server on loadServerCredentials(name).
ServerCredentials ==
    /\ alive = "running"
    /\ \E name \in ServiceNames :
        CredentialOutcome("server", name, loadServerCredentials(ENV, osVars, name))

(***************************************************************************)
(* CloseGRPCConn and CloseGRPCServer.                                      *)
(***************************************************************************)
\* The channels the process has opened with OpenGRPCConn.
Conns == {"conn1", "conn2"}

\* What Close returns on a channel and on a listener that is already closed.
ErrClientConnClosing == "grpc: the client connection is closing"
ErrNetClosing == "use of closed network connection"

\* conn.Close(): the error it returns.
ConnClose(state) == IF state = "closed" THEN ErrClientConnClosing ELSE Nil

\* listener.Close(): the error it returns.
ListenerClose(state) == IF state = "closed" THEN ErrNetClosing ELSE Nil

\* A CloseGRPCServer that treats the listener's error as CloseGRPCConn treats the
\* channel's.
ListenerCloseErrFatalIfSet(err) == err # Nil

\* CloseGRPCServer: `_ = listener.Close()`, the error is dropped.
ListenerCloseErrFatal(err) == FALSE

\* A process with open channels and a server serving on its listener.
InitClose ==
    /\ connState = [conn \in Conns |-> "open"]
    /\ serverState = "serving"
    /\ listenerState = "open"
    /\ inflight = 0
    /\ closepc = "idle"
    /\ connCloseErr = Nil
    /\ listenerCloseErr = Nil
    /\ closeCalls = 0

\* A call arrives at the server, which accepts it while it is serving.
RpcArrive ==
    /\ alive = "running"
    /\ serverState = "serving"
    /\ listenerState = "open"
    /\ inflight < MaxInflight
    /\ inflight' = inflight + 1
    /\ UNCHANGED <<connState, serverState, listenerState, closepc, connCloseErr,
                   listenerCloseErr, closeCalls, alive, fatalLog>>

\* A call the server is handling finishes.
RpcFinish ==
    /\ alive = "running"
    /\ inflight > 0
    /\ inflight' = inflight - 1
    /\ UNCHANGED <<connState, serverState, listenerState, closepc, connCloseErr,
                   listenerCloseErr, closeCalls, alive, fatalLog>>

\* CloseGRPCConn(conn).
CloseGRPCConn ==
    /\ alive = "running"
    /\ closeCalls < MaxCloses
    /\ closeCalls' = closeCalls + 1
    /\ \E conn \in Conns :
        LET err == ConnClose(connState[conn])
        IN  /\ connCloseErr' = err
            /\ connState' = [connState EXCEPT ![conn] = "closed"]
            /\ IF err # Nil
               THEN /\ alive' = "exited"
                    /\ fatalLog' = <<err, "failed to close connection">>
               ELSE UNCHANGED <<alive, fatalLog>>
    /\ UNCHANGED <<serverState, listenerState, inflight, closepc, listenerCloseErr>>

\* CloseGRPCServer(listener, server) calls server.GracefulStop(): the server stops
\* accepting calls and the caller waits for the calls in flight.
CloseGRPCServerEnter ==
    /\ alive = "running"
    /\ closepc = "idle"
    /\ closeCalls < MaxCloses
    /\ closeCalls' = closeCalls + 1
    /\ closepc' = "GracefulStop"
    /\ serverState' = IF serverState = "serving" THEN "stopping" ELSE serverState
    /\ UNCHANGED <<connState, listenerState, inflight, connCloseErr, listenerCloseErr,
                   alive, fatalLog>>

\* GracefulStop returns once no call is in flight; then `_ = listener.Close()`.
CloseGRPCServerFinish ==
    /\ alive = "running"
    /\ closepc = "GracefulStop"
    /\ inflight = 0
    /\ serverState' = "stopped"
    /\ closepc' = "idle"
    /\ LET err == ListenerClose(listenerState)
       IN  /\ listenerCloseErr' = err
           /\ listenerState' = "closed"
           /\ IF ListenerCloseErrFatal(err)
              THEN /\ alive' = "exited"
                   /\ fatalLog' = <<err, "failed to close listener">>
              ELSE UNCHANGED <<alive, fatalLog>>
    /\ UNCHANGED <<connState, inflight, connCloseErr, closeCalls>>

(***************************************************************************)
(* Specifications.                                                         *)
(***************************************************************************)
othersOfHealth == <<handlerVars, procVars, connVars, callVars, credVars, closeVars>>

Init ==
    /\ InitHealth /\ InitReader
    /\ InitHandlerIdle /\ InitProcIdle /\ InitConn /\ InitCall /\ InitCredIdle /\ InitClose

\* The health updater alone.
Next ==
    \/ Invoke /\ UNCHANGED <<readerVars, othersOfHealth>>
    \/ DepsCheck /\ UNCHANGED <<readerVars, othersOfHealth>>
    \/ PushOne /\ UNCHANGED <<readerVars, othersOfHealth>>
    \/ Return /\ UNCHANGED <<readerVars, othersOfHealth>>

Spec == Init /\ [][Next]_vars

\* The health updater and a health-check caller.
ReaderNext ==
    \/ Invoke /\ UNCHANGED <<readerVars, othersOfHealth>>
    \/ DepsCheck /\ NoteCycle /\ UNCHANGED <<rpc, rleft, robs, othersOfHealth>>
    \/ PushOne /\ UNCHANGED <<readerVars, othersOfHealth>>
    \/ Return /\ UNCHANGED <<readerVars, othersOfHealth>>
    \/ ReaderStart /\ UNCHANGED <<healthVars, othersOfHealth>>
    \/ ReaderRead /\ UNCHANGED <<healthVars, othersOfHealth>>

ReaderSpec == Init /\ [][ReaderNext]_vars

\* The HealthHandler endpoint.
HandlerInit ==
    /\ InitHealth /\ InitReader
    /\ InitHandler /\ InitProcIdle /\ InitConn /\ InitCall /\ InitCredIdle /\ InitClose

HandlerNext ==
    \/ ChecksChange /\ UNCHANGED <<healthVars, readerVars, procVars, connVars, callVars, credVars, closeVars>>
    \/ HandlerCheck /\ UNCHANGED <<healthVars, readerVars, procVars, connVars, callVars, credVars, closeVars>>

HandlerSpec == HandlerInit /\ [][HandlerNext]_vars

\* A process that opens a channel and makes a call through CallGRPCEndpoint.
CallInit ==
    /\ InitHealth /\ InitReader
    /\ InitHandlerIdle /\ InitProc /\ InitConn /\ InitCall /\ InitCredIdle /\ InitClose

CallNext ==
    \/ PackageInit /\ UNCHANGED <<healthVars, readerVars, handlerVars, connVars, callVars, credVars, closeVars>>
    \/ OpenGRPCConn /\ UNCHANGED <<healthVars, readerVars, handlerVars, callVars, credVars, closeVars>>
    \/ CallEnter /\ UNCHANGED <<healthVars, readerVars, handlerVars, procVars, connVars, credVars, closeVars>>
    \/ TokenOk /\ UNCHANGED <<healthVars, readerVars, handlerVars, procVars, connVars, credVars, closeVars>>
    \/ TokenFail /\ UNCHANGED <<healthVars, readerVars, handlerVars, procVars, connVars, credVars, closeVars>>
    \/ CallbackReturn /\ UNCHANGED <<healthVars, readerVars, handlerVars, procVars, connVars, credVars, closeVars>>
    \/ Tick /\ UNCHANGED <<healthVars, readerVars, handlerVars, procVars, connVars, credVars, closeVars>>

CallSpec == CallInit /\ [][CallNext]_vars

\* A process that builds transport credentials from its environment.
CredInit ==
    /\ InitHealth /\ InitReader
    /\ InitHandlerIdle /\ InitProc /\ InitConn /\ InitCall /\ InitCred /\ InitClose

CredNext ==
    \/ PackageInit /\ UNCHANGED <<healthVars, readerVars, handlerVars, connVars, callVars, credVars, closeVars>>
    \/ ClientCredentials /\ UNCHANGED <<healthVars, readerVars, handlerVars, connVars, callVars, closeVars>>
    \/ ServerCredentials /\ UNCHANGED <<healthVars, readerVars, handlerVars, connVars, callVars, closeVars>>

CredSpec == CredInit /\ [][CredNext]_vars

\* A process, started in any environment, that closes its channels and its
\* server, in any order and any number of times.
CloseInit ==
    /\ InitHealth /\ InitReader
    /\ InitHandlerIdle /\ InitProc /\ InitConn /\ InitCall /\ InitCredIdle /\ InitClose

othersOfClose ==
    <<healthVars, readerVars, handlerVars, connVars, callVars, osEnv, ENV,
      osVars, credpc, credop, credname, credres>>

CloseNext ==
    \/ PackageInit /\ UNCHANGED <<healthVars, readerVars, handlerVars, connVars, callVars,
                                  credVars, closeVars>>
    \/ RpcArrive /\ UNCHANGED othersOfClose
    \/ RpcFinish /\ UNCHANGED othersOfClose
    \/ CloseGRPCConn /\ UNCHANGED othersOfClose
    \/ CloseGRPCServerEnter /\ UNCHANGED othersOfClose
    \/ CloseGRPCServerFinish /\ UNCHANGED othersOfClose

CloseSpec == CloseInit /\ [][CloseNext]_vars

(***************************************************************************)
(* Claims about the health updater.                                        *)
(***************************************************************************)

\* The declared service -> dependencies map of the claims' example.  The code
\* takes no such map: healthUpdater has only the probe's result.
ServiceHealthMap == [svcA |-> {"db"}, svcB |-> {"cache"}]

\* The status the claims expect for one probe entry.
Expected(ok) == IF ok THEN "SERVING" ELSE "NOT_SERVING"

\* C1 (as stated): after a completed cycle every service declared in the
\* ServiceHealthMap is NOT_SERVING iff one of its declared dependencies failed in
\* this cycle's probe result (an absent dependency counts as not failed), and
\* SERVING otherwise.
C1_DeclaredServicesAggregated ==
    CycleDone =>
        \A svc \in DOMAIN ServiceHealthMap :
            registry[svc] =
                IF \E d \in ServiceHealthMap[svc] : d \in DOMAIN status /\ ~status[d]
                THEN "NOT_SERVING" ELSE "SERVING"

\* C1 (amended): after a completed cycle every name that is a key of this cycle's
\* probe result is NOT_SERVING iff the probe reported it as not ok, and SERVING
\* otherwise; the names are taken from the probe result, not from a declared map.
C1_ProbeEntriesPushed ==
    CycleDone => \A k \in DOMAIN status : registry[k] = Expected(status[k])

\* C1 witness: the example's probe result {db: failed, cache: ok} has been pushed:
\* db and cache have their entries, svcA and svcB have none.
C1_Witness ==
    /\ CycleDone
    /\ status = ("db" :> FALSE) @@ ("cache" :> TRUE)
    /\ registry["db"] = "NOT_SERVING"
    /\ registry["cache"] = "SERVING"
    /\ registry["svcA"] = NOT_REGISTERED
    /\ registry["svcB"] = NOT_REGISTERED

\* C2 (as stated): after a completed cycle the root entry is SERVING iff every
\* dependency of this cycle's probe result succeeded; for an empty probe result
\* the root is SERVING and no entry is written.
C2_RootIsAggregate ==
    CycleDone =>
        /\ registry[RootService] = "SERVING" <=> \A d \in DOMAIN status : status[d]
        /\ status = EmptyMap => registry = cycleStart

\* C2 (amended): a cycle writes the root entry only when the probe result has the
\* empty name as a key, and then with what the probe reported for it; otherwise
\* the root entry keeps the value it had (SERVING since construction), whatever
\* the other dependencies reported.  An empty probe result writes no entry.
C2_RootOnlyFromProbe ==
    /\ CycleDone =>
        /\ registry[RootService] =
              IF RootService \in DOMAIN status
              THEN Expected(status[RootService])
              ELSE cycleStart[RootService]
        /\ status = EmptyMap => registry = cycleStart
    /\ upc \in {"idle", "probe"} /\ cycles <= 1 => registry[RootService] = "SERVING"

\* C2 witness: a cycle in which a dependency failed has completed and the root
\* entry is still SERVING.
C2_Witness ==
    /\ CycleDone
    /\ \E d \in DOMAIN status : ~status[d]
    /\ registry[RootService] = "SERVING"

\* C3 (as stated): once started, the updater repeats: the step that follows the
\* 5-second sleep of a completed cycle starts another cycle (another probe).
C3_SleepThenNextCycle ==
    [][(upc = "sleep" /\ upc' # "sleep") => upc' = "probe"]_vars

\* C4 (as stated): after a completed cycle every entry of the registry is
\* determined by that cycle's probe result alone; no entry keeps a value from an
\* earlier cycle.
C4_FullReplace ==
    CycleDone =>
        \A n \in Names :
            registry[n] = IF n \in DOMAIN status THEN Expected(status[n])
                          ELSE NewHealthServer[n]

\* C4 (amended): a cycle overwrites exactly the entries named by its probe
\* result; an entry whose name is absent from this cycle's result keeps the value
\* it had when the cycle began, which may come from an earlier cycle.
C4_AbsentNamesKept ==
    /\ CycleDone => \A n \in Names \ DOMAIN status : registry[n] = cycleStart[n]
    /\ upc = "push" => \A n \in Names \ DOMAIN status : registry[n] = cycleStart[n]

\* C4 witness: the second cycle has completed and an entry written by the first
\* cycle, whose name the second probe result lacks, is still in the registry.
C4_Witness ==
    /\ CycleDone
    /\ cycles = 2
    /\ \E n \in ProbeKeys \ (DOMAIN status \cup {RootService}) :
          registry[n] \in {"SERVING", "NOT_SERVING"}

\* C5 (as stated): a caller that queries several names while the updater runs
\* observes statuses that all belong to one cycle: what it has observed is what
\* one of the cycles its queries overlap leaves in the registry.
C5_ReaderSeesOneCycle ==
    rpc = "done" => \E c \in rcands : \A n \in DOMAIN robs : robs[n] = c[n]

\* The status the cycle being written gives a name, where it gives one.
CycleTarget(n) ==
    IF upc = "push" /\ n \in DOMAIN status THEN Expected(status[n]) ELSE LastCompleted[n]

\* C5 (amended): every single query observes a whole entry: the value the last
\* completed cycle left for that name or the value the cycle being written gives
\* it.  The entries of several names may mix the two cycles.
C5_EntryAtomic ==
    [][\A n \in ReaderNames :
          (n \in DOMAIN robs' /\ n \notin DOMAIN robs) =>
              robs'[n] \in {LastCompleted[n], CycleTarget(n)}]_vars

\* C5 witness: a caller has finished its queries and what it observed matches no
\* completed cycle: one entry is from the cycle being written, one from before.
C5_Witness ==
    /\ rpc = "done"
    /\ ~ \E c \in rcands : \A n \in DOMAIN robs : robs[n] = c[n]

(***************************************************************************)
(* Claims about the health endpoint.                                       *)
(***************************************************************************)

\* C6 (as stated): a request with an empty service name returns the aggregate
\* status (NOT_SERVING when some check failed), an unregistered name returns
\* UNKNOWN, a registered name returns its current status, and the result is one
\* of SERVING, NOT_SERVING, UNKNOWN.
C6_EmptyNameIsAggregate ==
    hresp # Nil =>
        /\ hreq = "" =>
              hresp = IF \E svc \in hservices : ~hseen[svc] THEN "NOT_SERVING" ELSE "SERVING"
        /\ (hreq # "" /\ hreq \notin hservices) => hresp = "UNKNOWN"
        /\ (hreq # "" /\ hreq \in hservices) =>
              hresp = IF hseen[hreq] THEN "SERVING" ELSE "NOT_SERVING"
        /\ hresp \in {"SERVING", "NOT_SERVING", "UNKNOWN"}

\* C6 (amended): a request with an empty service name returns SERVING whatever
\* the registered checks report; an unregistered name returns UNKNOWN, a
\* registered name returns SERVING or NOT_SERVING as its check reports at the
\* request, and the result is one of SERVING, NOT_SERVING, UNKNOWN.
C6_EmptyNameIsServing ==
    hresp # Nil =>
        /\ hreq = "" => hresp = "SERVING"
        /\ (hreq # "" /\ hreq \notin hservices) => hresp = "UNKNOWN"
        /\ (hreq # "" /\ hreq \in hservices) =>
              hresp = IF hseen[hreq] THEN "SERVING" ELSE "NOT_SERVING"
        /\ hresp \in {"SERVING", "NOT_SERVING", "UNKNOWN"}

\* C6 witness: a request with an empty name was answered SERVING while a
\* registered check was failing.
C6_Witness ==
    /\ hreq = ""
    /\ hresp = "SERVING"
    /\ \E svc \in hservices : ~hseen[svc]

(***************************************************************************)
(* Claims about CallGRPCEndpoint and OpenGRPCConn.                         *)
(***************************************************************************)

\* C7 (as stated): a call through CallGRPCEndpoint is over at most 15 seconds
\* after the wrapper was entered, also while the token fetch does not respond;
\* when the wrapped call is ended by that bound the error is the deadline error;
\* and the internal context is cancelled on every return.
C7_ReturnsWithinBound ==
    /\ cpc \in {"token", "rpc"} => now <= centry + 15
    /\ cpc = "returned" =>
        /\ cretAt <= centry + 15
        /\ ccancelled
        /\ (cretAt = centry + 15 /\ ccbCalls = 1) => cres = <<Nil, "context deadline exceeded">>

\* C8: per invocation the token source is asked at most once and callback is
\* called at most once; the call never ends the process; a failed token fetch is
\* returned as the error without callback being called; a failed callback's error
\* is returned unchanged with a nil response; a successful callback's response is
\* returned with a nil error.
C8_NoRetryErrorsPropagated ==
    /\ ctokenCalls <= 1
    /\ ccbCalls <= 1
    /\ cpc # "idle" => alive = "running"
    /\ cpc = "returned" =>
        /\ ccbCalls = 0 => (cts # Nil /\ ctokenCalls = 1 /\ cres = <<Nil, "token fetch failed">>)
        /\ (ccbCalls = 1 /\ ccbRet[2] # Nil) => cres = <<Nil, ccbRet[2]>>
        /\ (ccbCalls = 1 /\ ccbRet[2] = Nil) => cres = ccbRet

\* C8 witness: with a token source, callback failed while also returning a
\* response, and the wrapper returned the error with a nil response.
C8_Witness ==
    /\ cpc = "returned"
    /\ ctokenCalls = 1
    /\ ccbCalls = 1
    /\ ccbRet = <<"partial", "rpc failed">>
    /\ cres = <<Nil, "rpc failed">>

\* The pairs CallGRPCEndpoint put on the metadata handed to callback.
AddedMetadata == SubSeq(cmd, Len(cparentMd) + 1, Len(cmd))

\* C9: OpenGRPCConn returns a nil token source in development and one bound to
\* the target host in staging and production; CallGRPCEndpoint adds exactly one
\* `authorization: Bearer <token>` pair to the call's metadata when its token
\* source is not nil, and none when it is nil.
C9_BearerIffTokenSource ==
    /\ oconn # NoConn =>
        /\ ots = Nil <=> ENV = "dev"
        /\ ENV \in {"staging", "prod"} => ots = "idtoken for " \o oconn.host
    /\ ccbCalls > 0 =>
        /\ SubSeq(cmd, 1, Len(cparentMd)) = cparentMd
        /\ IF cts # Nil
           THEN /\ Len(AddedMetadata) = 1
                /\ AddedMetadata[1][1] = "authorization"
                /\ AddedMetadata[1][2] \in {"Bearer tokA", "Bearer tokB"}
           ELSE AddedMetadata = << >>

\* C9 witness: in staging, callback was called with the bearer pair after the
\* caller's own metadata.
C9_Witness ==
    /\ ENV = "staging"
    /\ cts # Nil
    /\ ccbCalls = 1
    /\ cmd = << <<"x-request-id", "r1">>, <<"authorization", "Bearer tokB">> >>

(***************************************************************************)
(* Claims about the credentials.                                           *)
(***************************************************************************)

\* C10: a client or server credential that is returned is a TLS credential in
\* staging and production and an unauthenticated one in development, whatever
\* the certificate, key and CA variables hold; development never fails on them;
\* and in staging and production the server credential requires and verifies
\* client certificates.
C10_CredentialKindByMode ==
    /\ credpc = "returned" =>
        /\ credres.kind \in {"tls", "insecure"}
        /\ credres.kind = "tls" <=> ENV \in {"staging", "prod"}
        /\ credres.kind = "insecure" <=> ENV = "dev"
        /\ (credop = "server" /\ ENV \in {"staging", "prod"}) =>
              credres.ClientAuth = "RequireAndVerifyClientCert"
    /\ fatalLog # NoFatal => ENV \in {"staging", "prod"}

\* C10 witness: in staging, with a valid triple, the server credential was
\* returned: TLS, requiring and verifying client certificates.
C10_Witness ==
    /\ ENV = "staging"
    /\ credpc = "returned"
    /\ credop = "server"
    /\ credres.kind = "tls"
    /\ credres.ClientAuth = "RequireAndVerifyClientCert"

\* The kinds of credential-loading failure, and the error texts of each kind for a
\* service (a parse failure is reported for the key pair or for the CA).
ErrorKinds == {"cert-missing", "key-missing", "ca-missing", "parse-failure"}

ErrorsOfKind(kind, name) ==
    CASE kind = "cert-missing" -> {"missing certificate for service: " \o name \o "\n"}
      [] kind = "key-missing" -> {"missing key for service: " \o name \o "\n"}
      [] kind = "ca-missing" -> {"missing CA for service: " \o name \o "\n"}
      [] kind = "parse-failure" ->
            {"failed to load certificate for service " \o name \o ": tls: failed to parse key pair",
             "failed to load CA for service " \o name \o "\n"}

\* Whether a failure of the kind is true of the service's variables.
KindHolds(kind, env, name) ==
    LET rawCert == Getenv(env, ToUpper(name) \o "_CERT")
        rawKey == Getenv(env, ToUpper(name) \o "_KEY")
        rawCA == Getenv(env, ToUpper(name) \o "_CA")
    IN  CASE kind = "cert-missing" -> rawCert = ""
          [] kind = "key-missing" -> rawKey = ""
          [] kind = "ca-missing" -> rawCA = ""
          [] kind = "parse-failure" ->
                \/ rawCert # "" /\ rawKey # "" /\ ~X509KeyPairOk(rawCert, rawKey)
                \/ rawCA # "" /\ ~AppendCertsFromPEMOk(rawCA)

\* The service's certificate, key and CA are all present and all parse.
TripleOk(env, name) == \A kind \in ErrorKinds : ~KindHolds(kind, env, name)

\* C11: for every service, a certificate, key or CA variable that is missing or
\* does not parse makes loading return an error, and an error comes with no
\* credential material; the error that terminated the process is of exactly one
\* of the four kinds, and that kind is true of the environment; in staging and
\* production a constructor called on an incomplete triple terminates the
\* process without a credential, and a credential that is returned carries
\* exactly the service's certificate, key and CA.
C11_FailsClosedDistinctKinds ==
    /\ \A name \in ServiceNames :
        LET cert == loadCertificates(osVars, name)
            ca == loadCA(osVars, name)
        IN  /\ ~TripleOk(osVars, name) => (cert[2] # Nil \/ ca[2] # Nil)
            /\ cert[2] # Nil => cert[1] = NoCertificate
            /\ ca[2] # Nil => ca[1] = NoPool
            /\ \A e \in {cert[2], ca[2]} \ {Nil} :
                  \E kind \in ErrorKinds :
                      /\ e \in ErrorsOfKind(kind, name)
                      /\ KindHolds(kind, osVars, name)
                      /\ \A other \in ErrorKinds \ {kind} : e \notin ErrorsOfKind(other, name)
    /\ fatalLog # NoFatal =>
        /\ alive = "exited"
        /\ credres = NoCredential
        /\ \E kind \in ErrorKinds :
              /\ fatalLog[1] \in ErrorsOfKind(kind, credname)
              /\ KindHolds(kind, osVars, credname)
              /\ \A other \in ErrorKinds \ {kind} :
                    fatalLog[1] \notin ErrorsOfKind(other, credname)
    /\ (credop # Nil /\ ENV \in {"staging", "prod"} /\ ~TripleOk(osVars, credname)) =>
        /\ alive = "exited"
        /\ fatalLog # NoFatal
        /\ credres = NoCredential
    /\ (credpc = "returned" /\ ENV \in {"staging", "prod"}) =>
        /\ TripleOk(osVars, credname)
        /\ credres.Certificates =
              <<[cert |-> Getenv(osVars, ToUpper(credname) \o "_CERT"),
                 key |-> Getenv(osVars, ToUpper(credname) \o "_KEY")]>>
        /\ IF credop = "client"
           THEN credres.RootCAs = [certs |-> Getenv(osVars, ToUpper(credname) \o "_CA")]
           ELSE credres.ClientCAs = [certs |-> Getenv(osVars, ToUpper(credname) \o "_CA")]

\* C11 witness: in production, with a valid key pair and no CA, the server
\* constructor terminated the process on the missing-CA error.
C11_Witness ==
    /\ ENV = "prod"
    /\ credop = "server"
    /\ alive = "exited"
    /\ X509KeyPairOk(osVars["ORDERS_CERT"], osVars["ORDERS_KEY"])
    /\ fatalLog = <<"missing CA for service: orders\n", "failed to load CA for service orders">>
    /\ credres = NoCredential

(***************************************************************************)
(* Claims about closing.                                                   *)
(***************************************************************************)

\* C12: a close that fails terminates the process, whether it is conn.Close() in
\* CloseGRPCConn or listener.Close() in CloseGRPCServer, and the listener is only
\* closed once the server has stopped with no call in flight.
C12_CloseFailureFatal ==
    /\ connCloseErr # Nil => (alive = "exited" /\ fatalLog # NoFatal)
    /\ listenerCloseErr # Nil => (alive = "exited" /\ fatalLog # NoFatal)
    /\ listenerState = "closed" => (serverState = "stopped" /\ inflight = 0)

\* C12, amended: a conn.Close() that fails terminates the process with the error
\* and "failed to close connection"; a listener.Close() that fails in
\* CloseGRPCServer terminates nothing and prints nothing, the process exits on a
\* failed channel close only; and the listener is only closed once the server has
\* stopped with no call in flight.
C12_OnlyConnCloseFatal ==
    /\ connCloseErr # Nil =>
        /\ alive = "exited"
        /\ fatalLog = <<connCloseErr, "failed to close connection">>
    /\ (alive = "exited" /\ closeCalls > 0) => connCloseErr # Nil
    /\ fatalLog # NoFatal => connCloseErr # Nil
    /\ listenerState = "closed" => (serverState = "stopped" /\ inflight = 0)

\* C12 witness: CloseGRPCServer ran twice, the second listener.Close() failed on
\* the closed listener, and the process is still running with nothing printed.
C12_Witness ==
    /\ listenerCloseErr = ErrNetClosing
    /\ listenerState = "closed"
    /\ closepc = "idle"
    /\ alive = "running"
    /\ fatalLog = NoFatal

====
